---- MODULE Spec2Model ----
(***************************************************************************)
(* The CSV-backed book repository of Exercises/library:                    *)
(*   Model/book.py                  the Book record and its validators     *)
(*   Repository/csv_repository.py   CSV_Repository (load, save, CRUD)      *)
(*                                                                         *)
(* The backing file is modelled as the text it holds (a header and rows of *)
(* text cells); a store instance's books_dataframe is modelled as the      *)
(* typed table pandas builds from that text.  pd.read_csv infers one dtype *)
(* per column and DataFrame.to_csv formats each value back to text, so a   *)
(* save followed by a load is a conversion, not the identity.              *)
(*                                                                         *)
(* Texts are TLA+ strings.  The texts the model feeds in contain no sign,  *)
(* exponent, blank, quote, comma or boolean word; on those the parsing     *)
(* operators below agree with pandas' C parser.                            *)
(***************************************************************************)
EXTENDS Integers, Sequences, FiniteSets, TLC

VARIABLES
    file,     \* the backing CSV file (shared by every store instance)
    df,       \* df[s]: books_dataframe of store instance s
    last,     \* the call that completed last: its arguments and what it returned
    prev,     \* the call before it, when that was an add or a remove that succeeded
    issued,   \* the ids add has returned so far
    pc,       \* pc[s]: where instance s stands inside a call (stepwise calls)
    req,      \* req[s]: the call instance s is running (stepwise calls)
    done      \* the instances whose stepwise call has returned, in order of return

vars == <<file, df, last, prev, issued, pc, req, done>>

(***************************************************************************)
(* Bounds of the model.                                                    *)
(***************************************************************************)
MaxId == 3          \* add is explored while the id it assigns is <= MaxId
MaxBooks == 2       \* add is explored while the file holds < MaxBooks rows

Stores == {1, 2}    \* two store instances (two processes) on the same file

(***************************************************************************)
(* Model/book.py: field constraints of Book.                               *)
(***************************************************************************)
TitleMinLen == 1
TitleMaxLen == 200
AuthorMinLen == 1
AuthorMaxLen == 100
YearMin == 1000
YearMax == 2024
IsbnMinLen == 10
IsbnMaxLen == 20
IsbnMarkers == {"isbn", "978", "979"}

\* Optional[int] = None is written 0: the store assigns ids from 1 upwards.
NoId == 0

Upper == <<"A","B","C","D","E","F","G","H","I","J","K","L","M",
           "N","O","P","Q","R","S","T","U","V","W","X","Y","Z">>
Lowers == <<"a","b","c","d","e","f","g","h","i","j","k","l","m",
            "n","o","p","q","r","s","t","u","v","w","x","y","z">>

LowerChar(c) ==
    IF \E i \in 1..26 : Upper[i] = c
    THEN Lowers[CHOOSE i \in 1..26 : Upper[i] = c]
    ELSE c

RECURSIVE Lower(_)
Lower(s) ==
    IF Len(s) = 0 THEN ""
    ELSE LowerChar(SubSeq(s, 1, 1)) \o Lower(SubSeq(s, 2, Len(s)))

\* Python's `sub in s`
Contains(s, sub) ==
    \E i \in 1..(Len(s) - Len(sub) + 1) : SubSeq(s, i, i + Len(sub) - 1) = sub

validate_isbn(field) ==
    \E prefix \in IsbnMarkers : Contains(Lower(field), prefix)

\* a slip: the isbn validator left out
BookValidNoMarker(b) ==
    /\ Len(b.title) >= TitleMinLen /\ Len(b.title) <= TitleMaxLen
    /\ Len(b.author) >= AuthorMinLen /\ Len(b.author) <= AuthorMaxLen
    /\ b.year >= YearMin /\ b.year <= YearMax
    /\ Len(b.isbn) >= IsbnMinLen /\ Len(b.isbn) <= IsbnMaxLen

\* Book(**raw) succeeds: every Field constraint and the isbn validator hold.
BookValid(b) ==
    /\ Len(b.title) >= TitleMinLen /\ Len(b.title) <= TitleMaxLen
    /\ Len(b.author) >= AuthorMinLen /\ Len(b.author) <= AuthorMaxLen
    /\ b.year >= YearMin /\ b.year <= YearMax
    /\ Len(b.isbn) >= IsbnMinLen /\ Len(b.isbn) <= IsbnMaxLen
    /\ validate_isbn(b.isbn)

Book(t, a, y, i, n) == [title |-> t, author |-> a, year |-> y, isbn |-> i, id |-> n]

\* Python's None where a Book is expected (Optional[Book])
NoBook == Book("", "", 0, "", NoId)

(***************************************************************************)
(* pandas: the typed cells of a DataFrame and their CSV text.              *)
(***************************************************************************)
Digits == {"0", "1", "2", "3", "4", "5", "6", "7", "8", "9"}

\* the texts read_csv turns into NaN (keep_default_na), among them the empty cell
NaValues == {"", "NA", "N/A", "NaN", "nan", "NULL", "null", "None", "n/a", "<NA>", "#N/A"}

StrCell(s) == [k |-> "str", s |-> s]
IntCell(s) == [k |-> "int", s |-> s]
FloatCell(s) == [k |-> "float", s |-> s]
NaN == [k |-> "nan", s |-> ""]

IsIntText(s) ==
    /\ Len(s) > 0
    /\ \A i \in 1..Len(s) : SubSeq(s, i, i) \in Digits

\* digits "." digits
IsFloatText(s) ==
    \E d \in 2..(Len(s) - 1) :
        /\ SubSeq(s, d, d) = "."
        /\ IsIntText(SubSeq(s, 1, d - 1))
        /\ IsIntText(SubSeq(s, d + 1, Len(s)))

RECURSIVE CanonInt(_)
\* the decimal text of the integer s denotes: leading zeros are gone
CanonInt(s) ==
    IF Len(s) > 1 /\ SubSeq(s, 1, 1) = "0" THEN CanonInt(SubSeq(s, 2, Len(s))) ELSE s

RECURSIVE StripZerosRight(_)
StripZerosRight(s) ==
    IF Len(s) > 1 /\ SubSeq(s, Len(s), Len(s)) = "0"
    THEN StripZerosRight(SubSeq(s, 1, Len(s) - 1)) ELSE s

\* repr of the float a numeric text denotes
CanonFloat(s) ==
    IF IsIntText(s) THEN CanonInt(s) \o ".0"
    ELSE LET d == CHOOSE d \in 2..(Len(s) - 1) : SubSeq(s, d, d) = "."
         IN CanonInt(SubSeq(s, 1, d - 1)) \o "." \o StripZerosRight(SubSeq(s, d + 1, Len(s)))

RECURSIVE ParseNat(_)
ParseNat(s) ==
    IF Len(s) = 0 THEN 0
    ELSE 10 * ParseNat(SubSeq(s, 1, Len(s) - 1))
         + (CHOOSE n \in 0..9 : ToString(n) = SubSeq(s, Len(s), Len(s)))

\* dtype read_csv infers for a column from the texts of its cells
ColumnDtype(texts) ==
    LET all   == 1..Len(texts)
        nonNa == {i \in all : texts[i] \notin NaValues}
    IN  IF \A i \in nonNa : IsIntText(texts[i])
        THEN (IF nonNa = all THEN "int64" ELSE "float64")
        ELSE IF \A i \in nonNa : IsIntText(texts[i]) \/ IsFloatText(texts[i])
             THEN "float64"
             ELSE "object"

ParseCell(dtype, text) ==
    IF text \in NaValues THEN NaN
    ELSE IF dtype = "int64" THEN IntCell(CanonInt(text))
    ELSE IF dtype = "float64" THEN FloatCell(CanonFloat(text))
    ELSE StrCell(text)

\* to_csv: a NaN is written as the empty cell (na_rep = ''), any other value as its str()
FormatCell(c) == IF c.k = "nan" THEN "" ELSE c.s

(***************************************************************************)
(* The backing file.                                                       *)
(***************************************************************************)
AbsentFile == [kind |-> "absent", rows |-> <<>>]    \* no file at csv_file
EmptyFile  == [kind |-> "empty", rows |-> <<>>]     \* a file of zero bytes
Table(rows) == [kind |-> "table", rows |-> rows]    \* the header line and rows
\* a file whose lines do not form a table (a line with more fields than the
\* header and the lines before it)
MalformedFile == [kind |-> "malformed", rows |-> <<>>]

\* pd.read_csv raises ParserError on such a file, and load_from_csv catches only
\* EmptyDataError and FileNotFoundError: the call that loads raises
ReadRaises(f) == f.kind = "malformed"

Column(rows, col) == [i \in 1..Len(rows) |-> rows[i][col]]

read_csv(f) ==
    LET rows == f.rows
        dt(col) == ColumnDtype(Column(rows, col))
    IN  [i \in 1..Len(rows) |->
            [id     |-> ParseNat(rows[i].id),
             title  |-> ParseCell(dt("title"), rows[i].title),
             author |-> ParseCell(dt("author"), rows[i].author),
             year   |-> ParseCell(dt("year"), rows[i].year),
             isbn   |-> ParseCell(dt("isbn"), rows[i].isbn)]]

\* the table an instance holds after load_from_csv: the rows, or the empty
\* table when read_csv raised EmptyDataError or FileNotFoundError
load_from_csv(f) ==
    IF f.kind = "table" THEN read_csv(f) ELSE <<>>

\* the file after save_to_csv succeeded
save_to_csv(d) ==
    Table([i \in 1..Len(d) |->
            [id     |-> ToString(d[i].id),
             title  |-> FormatCell(d[i].title),
             author |-> FormatCell(d[i].author),
             year   |-> FormatCell(d[i].year),
             isbn   |-> FormatCell(d[i].isbn)]])

\* __init__ / initialize: the table and the file after constructing a store
initialize(f) ==
    IF f.kind = "absent"
    THEN [df |-> <<>>, file |-> save_to_csv(<<>>)]
    ELSE [df |-> load_from_csv(f), file |-> f]

(***************************************************************************)
(* CSV_Repository: the table operations.                                   *)
(***************************************************************************)
Ids(d) == {d[i].id : i \in 1..Len(d)}

Max(S) == CHOOSE m \in S : \A x \in S : x <= m

\* a slip: the next id taken from the number of rows
next_id_by_count(d) == Len(d) + 1

_get_next_id(d) == IF Len(d) = 0 THEN 1 ELSE Max(Ids(d)) + 1

\* the row pd.DataFrame([book.model_dump()]) holds
BookRow(b) ==
    [id |-> b.id, title |-> StrCell(b.title), author |-> StrCell(b.author),
     year |-> IntCell(ToString(b.year)), isbn |-> StrCell(b.isbn)]

\* the Book that Book(**row.to_dict()) builds from a row of strings and an int year
RowBook(r) == Book(r.title.s, r.author.s, ParseNat(r.year.s), r.isbn.s, r.id)

\* Book(**row.to_dict()) succeeds: a str where str is declared (pydantic turns
\* neither an int nor a float, NaN included, into a str), an int for year, and
\* the Field constraints
RowValid(r) ==
    /\ r.title.k = "str" /\ r.author.k = "str" /\ r.isbn.k = "str"
    /\ r.year.k = "int"
    /\ BookValid(RowBook(r))

\* new_book = book.model_copy(); new_book.id = self._get_next_id()
AddBook(d, b) == [b EXCEPT !.id = _get_next_id(d)]

\* pd.concat([books_dataframe, new_book_df], ignore_index=True)
AddTable(d, b) == Append(d, BookRow(AddBook(d, b)))

\* books_dataframe.loc[mask, column] = value, for title, author, year, isbn.
\* A str assigned into a column read as numbers turns the column to object;
\* the rows the mask leaves out keep the values read_csv gave them.
UpdateTable(d, n, b) ==
    [i \in 1..Len(d) |->
        IF d[i].id = n THEN BookRow([b EXCEPT !.id = n]) ELSE d[i]]

\* books_dataframe[books_dataframe['id'] != book_id]
RemoveTable(d, n) == SelectSeq(d, LAMBDA r : r.id # n)

(***************************************************************************)
(* The calls explored.                                                     *)
(***************************************************************************)
RECURSIVE Repeat(_, _)
Repeat(c, n) == IF n = 0 THEN "" ELSE c \o Repeat(c, n - 1)

Dune == Book("Dune", "Herbert", 1965, "978-0441013593", NoId)
Bond == Book("007", "Fleming", 1953, "ISBN-0141002484", 7)     \* carries an id

ValidCandidates == {Dune, Bond}

InvalidCandidates ==
    { [Dune EXCEPT !.title = ""],
      [Dune EXCEPT !.title = Repeat("x", TitleMaxLen + 1)],
      [Dune EXCEPT !.author = ""],
      [Dune EXCEPT !.author = Repeat("x", AuthorMaxLen + 1)],
      [Dune EXCEPT !.year = YearMin - 1],
      [Dune EXCEPT !.year = YearMax + 1],
      [Dune EXCEPT !.isbn = "978"],
      [Dune EXCEPT !.isbn = "no-marker-here"] }

\* what a caller submits where records that fail validation are explored
Submitted == {Dune} \cup InvalidCandidates

IdArgs == 1..MaxId

\* main.py: book_repository, the one instance the calls go through
Caller == 1

\* no dict returned by get_books_statistics
NoStats ==
    [kind |-> "none", total_books |-> 0, authors_count |-> 0, oldest |-> 0,
     newest |-> 0, average10 |-> 0, books_per_author |-> <<>>]

NoCall == [op |-> "none", id |-> NoId, cand |-> NoBook, status |-> "ok",
           retBook |-> NoBook, retBool |-> FALSE, retList |-> <<>>,
           retStats |-> NoStats, fileBefore |-> AbsentFile]

Call(op, n, b, status, rb, rf) ==
    [op |-> op, id |-> n, cand |-> b, status |-> status,
     retBook |-> rb, retBool |-> rf, retList |-> <<>>,
     retStats |-> NoStats, fileBefore |-> file]

NoPrev == [op |-> "none", book |-> NoBook]

\* what the next call remembers of this one
Remember(c) ==
    IF c.op = "add" /\ c.status = "ok" THEN [op |-> "add", book |-> c.retBook]
    ELSE IF c.op = "remove" /\ c.status = "ok" /\ c.retBool
         THEN [op |-> "remove", book |-> [NoBook EXCEPT !.id = c.id]]
         ELSE NoPrev

Idle == [s \in Stores |-> "idle"]

Request(op, n, b) ==
    [op |-> op, id |-> n, cand |-> b, retBook |-> NoBook, retBool |-> FALSE,
     from |-> AbsentFile]

NoReq == [s \in Stores |-> Request("none", NoId, NoBook)]

\* the constructor has run in both processes, on a file that was absent or empty
Init ==
    \E f0 \in {AbsentFile, EmptyFile} :
        LET r1 == initialize(f0)
            r2 == initialize(r1.file)
        IN  /\ file = r2.file
            /\ df = (1 :> r1.df) @@ (2 :> r2.df)
            /\ last = NoCall
            /\ prev = NoPrev
            /\ issued = {}
            /\ pc = Idle
            /\ req = NoReq
            /\ done = <<>>

\* Book(**raw) raised ValidationError: the store is never called.  (main.py's
\* AfterValidator(check_valid_isbn) runs only once Book's own validation has
\* passed, so it has no part in rejecting a record that fails a rule of Book.)
Rejected(op, n, raw) ==
    /\ ~BookValid(raw)
    /\ last' = Call(op, n, raw, "InvalidRecord", NoBook, FALSE)
    /\ prev' = Remember(last)
    /\ UNCHANGED <<file, df, issued>>

\* add(book), the whole call; saved = FALSE: to_csv raised OSError before it
\* wrote anything.  MaxBooks and MaxId bound the adds explored.
Add(s, raw, saved) ==
    /\ BookValid(raw)
    /\ ~ReadRaises(file)
    /\ LET d0 == load_from_csv(file)
           nb == AddBook(d0, raw)
           d1 == AddTable(d0, raw)
       IN  /\ Len(d0) < MaxBooks
           /\ nb.id <= MaxId
           /\ df' = [df EXCEPT ![s] = d1]
           /\ file' = IF saved THEN save_to_csv(d1) ELSE file
           /\ last' = IF saved THEN Call("add", NoId, raw, "ok", nb, FALSE)
                      ELSE Call("add", NoId, raw, "StorageError", NoBook, FALSE)
           /\ issued' = IF saved THEN issued \cup {nb.id} ELSE issued
    /\ prev' = Remember(last)

\* a slip: update without the check for a missing id, storing the book as a new row
UpdateUpsert(s, n, raw, saved) ==
    /\ BookValid(raw)
    /\ LET d0 == load_from_csv(file)
           d1 == IF n \in Ids(d0) THEN UpdateTable(d0, n, raw)
                 ELSE Append(d0, BookRow([raw EXCEPT !.id = n]))
       IN  /\ saved
           /\ df' = [df EXCEPT ![s] = d1]
           /\ file' = save_to_csv(d1)
           /\ last' = Call("update", n, raw, "ok", [raw EXCEPT !.id = n], FALSE)
    /\ prev' = Remember(last)
    /\ UNCHANGED issued

\* update(book_id, book), the whole call
Update(s, n, raw, saved) ==
    /\ BookValid(raw)
    /\ ~ReadRaises(file)
    /\ LET d0 == load_from_csv(file)
           d1 == UpdateTable(d0, n, raw)
       IN  IF n \notin Ids(d0)
           THEN /\ saved
                /\ df' = [df EXCEPT ![s] = d0]
                /\ last' = Call("update", n, raw, "ok", NoBook, FALSE)
                /\ UNCHANGED file
           ELSE /\ df' = [df EXCEPT ![s] = d1]
                /\ file' = IF saved THEN save_to_csv(d1) ELSE file
                /\ last' = IF saved
                           THEN Call("update", n, raw, "ok", [raw EXCEPT !.id = n], FALSE)
                           ELSE Call("update", n, raw, "StorageError", NoBook, FALSE)
    /\ prev' = Remember(last)
    /\ UNCHANGED issued

\* a slip: remove without the check for a missing id
RemoveUnchecked(s, n, saved) ==
    /\ LET d1 == RemoveTable(load_from_csv(file), n)
       IN  /\ saved
           /\ df' = [df EXCEPT ![s] = d1]
           /\ file' = save_to_csv(d1)
           /\ last' = Call("remove", n, NoBook, "ok", NoBook, TRUE)
    /\ prev' = Remember(last)
    /\ UNCHANGED issued

\* remove(book_id), the whole call
Remove(s, n, saved) ==
    /\ ~ReadRaises(file)
    /\ LET d0 == load_from_csv(file)
           d1 == RemoveTable(d0, n)
       IN  IF n \notin Ids(d0)
           THEN /\ saved
                /\ df' = [df EXCEPT ![s] = d0]
                /\ last' = Call("remove", n, NoBook, "ok", NoBook, FALSE)
                /\ UNCHANGED file
           ELSE /\ df' = [df EXCEPT ![s] = d1]
                /\ file' = IF saved THEN save_to_csv(d1) ELSE file
                /\ last' = IF saved
                           THEN Call("remove", n, NoBook, "ok", NoBook, TRUE)
                           ELSE Call("remove", n, NoBook, "StorageError", NoBook, FALSE)
    /\ prev' = Remember(last)
    /\ UNCHANGED issued

\* the first row of books_dataframe[books_dataframe['id'] == book_id]
RowOf(d, n) == d[CHOOSE i \in 1..Len(d) : d[i].id = n /\ \A j \in 1..(i - 1) : d[j].id # n]

\* get(book_id), the whole call
Get(s, n) ==
    /\ ~ReadRaises(file)
    /\ LET d0 == load_from_csv(file)
       IN  /\ df' = [df EXCEPT ![s] = d0]
           /\ last' = IF n \notin Ids(d0)
                      THEN Call("get", n, NoBook, "ok", NoBook, FALSE)
                      ELSE IF RowValid(RowOf(d0, n))
                           THEN Call("get", n, NoBook, "ok", RowBook(RowOf(d0, n)), FALSE)
                           ELSE Call("get", n, NoBook, "ValidationError", NoBook, FALSE)
    /\ prev' = Remember(last)
    /\ UNCHANGED <<file, issued>>

\* get_all(), the whole call: every row goes through Book(**row.to_dict())
GetAll(s) ==
    /\ ~ReadRaises(file)
    /\ LET d0 == load_from_csv(file)
       IN  /\ df' = [df EXCEPT ![s] = d0]
           /\ last' = IF \A i \in 1..Len(d0) : RowValid(d0[i])
                      THEN [Call("get_all", NoId, NoBook, "ok", NoBook, FALSE)
                               EXCEPT !.retList = [i \in 1..Len(d0) |-> RowBook(d0[i])]]
                      ELSE Call("get_all", NoId, NoBook, "ValidationError", NoBook, FALSE)
    /\ prev' = Remember(last)
    /\ UNCHANGED <<file, issued>>

(***************************************************************************)
(* get_books_statistics.                                                   *)
(***************************************************************************)
\* {"total_books": 0, "message": "No books in collection"}
NoBooksStats == [NoStats EXCEPT !.kind = "no_books"]

Min(S) == CHOOSE m \in S : \A x \in S : m <= x

RECURSIVE SumSeq(_)
SumSeq(q) == IF Len(q) = 0 THEN 0 ELSE q[1] + SumSeq(SubSeq(q, 2, Len(q)))

\* the year column as numbers
YearsOf(d) == [i \in 1..Len(d) |-> ParseNat(d[i].year.s)]

\* the values nunique() and value_counts() see in the author column: both
\* leave NaN out (dropna=True)
AuthorValues(d) == {d[i].author : i \in 1..Len(d)} \ {NaN}

\* books_dataframe['author'].value_counts().to_dict()
value_counts(d) ==
    [a \in AuthorValues(d) |-> Cardinality({i \in 1..Len(d) : d[i].author = a})]

\* round(x, 1) of x = num / den, in tenths; numpy rounds a tie to the even digit
RoundTenths(num, den) ==
    LET q == (10 * num) \div den
        r == (10 * num) % den
    IN  IF 2 * r < den THEN q
        ELSE IF 2 * r > den THEN q + 1
        ELSE IF q % 2 = 0 THEN q ELSE q + 1

\* the dict built at lines 119-128; average10 is the average in tenths
StatsOf(d) ==
    [kind |-> "stats",
     total_books |-> Len(d),
     authors_count |-> Cardinality(AuthorValues(d)),
     oldest |-> Min({YearsOf(d)[i] : i \in 1..Len(d)}),
     newest |-> Max({YearsOf(d)[i] : i \in 1..Len(d)}),
     average10 |-> RoundTenths(SumSeq(YearsOf(d)), Len(d)),
     books_per_author |-> value_counts(d)]

\* get_books_statistics(), the whole call
Statistics(s) ==
    /\ ~ReadRaises(file)
    /\ LET d0 == load_from_csv(file)
       IN  /\ df' = [df EXCEPT ![s] = d0]
           /\ last' = [Call("statistics", NoId, NoBook, "ok", NoBook, FALSE)
                          EXCEPT !.retStats = IF Len(d0) = 0 THEN NoBooksStats
                                              ELSE StatsOf(d0)]
    /\ prev' = Remember(last)
    /\ UNCHANGED <<file, issued>>

\* the call raised at its first line, self.load_from_csv(); the assignment to
\* books_dataframe did not happen
LoadFailed(s, op, n, raw) ==
    /\ ReadRaises(file)
    /\ op \in {"add", "update"} => BookValid(raw)
    /\ last' = Call(op, n, raw, "ParserError", NoBook, FALSE)
    /\ prev' = Remember(last)
    /\ UNCHANGED <<file, df, issued>>

\* outside the store: the file is deleted, truncated, or overwritten with
\* lines that form no table
Replace(f) ==
    /\ f # file
    /\ file' = f
    /\ UNCHANGED <<df, last, prev, issued>>

\* calls one after the other, each completing before the next starts; every save succeeds
Next ==
    /\ UNCHANGED <<pc, req, done>>
    /\ \/ \E raw \in ValidCandidates : Add(Caller, raw, TRUE)
       \/ \E raw \in ValidCandidates, n \in IdArgs : Update(Caller, n, raw, TRUE)
       \/ \E n \in IdArgs : Remove(Caller, n, TRUE)
       \/ \E n \in IdArgs : Get(Caller, n)

Spec == Init /\ [][Next]_vars

\* the same calls where a save may fail
NextFail ==
    /\ UNCHANGED <<pc, req, done>>
    /\ \/ \E raw \in ValidCandidates, saved \in BOOLEAN : Add(Caller, raw, saved)
       \/ \E raw \in ValidCandidates, n \in IdArgs, saved \in BOOLEAN :
              Update(Caller, n, raw, saved)
       \/ \E n \in IdArgs, saved \in BOOLEAN : Remove(Caller, n, saved)
       \/ \E n \in IdArgs : Get(Caller, n)

SpecFail == Init /\ [][NextFail]_vars

\* the same calls where the caller also submits records that fail validation
NextReject ==
    /\ UNCHANGED <<pc, req, done>>
    /\ \/ \E raw \in Submitted : Rejected("add", NoId, raw)
       \/ \E raw \in Submitted, n \in IdArgs : Rejected("update", n, raw)
       \/ \E raw \in Submitted : Add(Caller, raw, TRUE)
       \/ \E raw \in Submitted, n \in IdArgs : Update(Caller, n, raw, TRUE)
       \/ \E n \in IdArgs : Remove(Caller, n, TRUE)

SpecReject == Init /\ [][NextReject]_vars

\* the calls on a file that was deleted, truncated or garbled behind the store
NextFile ==
    /\ UNCHANGED <<pc, req, done>>
    /\ \/ \E f \in {AbsentFile, EmptyFile, MalformedFile} : Replace(f)
       \/ \E raw \in ValidCandidates : Add(Caller, raw, TRUE)
       \/ \E n \in IdArgs : Remove(Caller, n, TRUE)
       \/ \E n \in IdArgs : Get(Caller, n)
       \/ GetAll(Caller)
       \/ Statistics(Caller)
       \/ \E raw \in ValidCandidates : LoadFailed(Caller, "add", NoId, raw)
       \/ \E op \in {"get", "remove"}, n \in IdArgs : LoadFailed(Caller, op, n, NoBook)
       \/ \E op \in {"get_all", "statistics"} : LoadFailed(Caller, op, NoId, NoBook)

SpecFile == Init /\ [][NextFile]_vars

\* the books the statistics are taken over; the third has an author whose
\* text is one of read_csv's NA values
Orwell == Book("1984", "Orwell", 1949, "978-0451524935", NoId)
Anon == Book("Poems", "NA", 1953, "ISBN-0141002484", NoId)

StatsCandidates == {Dune, Orwell, Anon}

\* adds, removes and statistics one after the other; every save succeeds
NextStats ==
    /\ UNCHANGED <<pc, req, done>>
    /\ \/ \E raw \in StatsCandidates : Add(Caller, raw, TRUE)
       \/ \E n \in IdArgs : Remove(Caller, n, TRUE)
       \/ Statistics(Caller)

SpecStats == Init /\ [][NextStats]_vars

(***************************************************************************)
(* Two processes, each running one mutating call on its own store instance *)
(* over the same file.  A call is three steps: load_from_csv, the change   *)
(* of the in-memory table, save_to_csv.  Nothing orders the steps of one   *)
(* process against the steps of the other.                                 *)
(***************************************************************************)
\* the file after add(raw) ran alone on file f
AfterAdd(f, raw) == save_to_csv(AddTable(load_from_csv(f), raw))

\* the files the two processes may find when they start
RaceFiles ==
    LET f0 == save_to_csv(<<>>)
    IN  {f0, AfterAdd(f0, Dune), AfterAdd(AfterAdd(f0, Dune), Bond)}

InitRace ==
    \E f0 \in RaceFiles :
        /\ file = f0
        /\ df = [s \in Stores |-> initialize(f0).df]
        /\ last = NoCall
        /\ prev = NoPrev
        /\ issued = {}
        /\ pc = Idle
        /\ req = NoReq
        /\ done = <<>>

RaceCalls ==
    {Request("add", NoId, raw) : raw \in ValidCandidates}
    \cup {Request("update", n, raw) : n \in IdArgs, raw \in ValidCandidates}
    \cup {Request("remove", n, NoBook) : n \in IdArgs}

\* a slip: the call acts on the table the instance already holds
RaceLoadNoReload(s, call) ==
    /\ pc[s] = "idle"
    /\ call.op = "add" => Len(load_from_csv(file)) < MaxBooks
    /\ req' = [req EXCEPT ![s] = [call EXCEPT !.from = file]]
    /\ pc' = [pc EXCEPT ![s] = "loaded"]
    /\ UNCHANGED <<df, file, done>>

\* the call starts: self.load_from_csv()
RaceLoad(s, call) ==
    /\ pc[s] = "idle"
    /\ call.op = "add" => Len(load_from_csv(file)) < MaxBooks
    /\ req' = [req EXCEPT ![s] = [call EXCEPT !.from = file]]
    /\ df' = [df EXCEPT ![s] = load_from_csv(file)]
    /\ pc' = [pc EXCEPT ![s] = "loaded"]
    /\ UNCHANGED <<file, done>>

\* update and remove return early on a missing id; otherwise the table is changed
RaceMutate(s) ==
    /\ pc[s] = "loaded"
    /\ LET r == req[s]
           d == df[s]
       IN  IF r.op = "add"
           THEN /\ df' = [df EXCEPT ![s] = AddTable(d, r.cand)]
                /\ req' = [req EXCEPT ![s].retBook = AddBook(d, r.cand)]
                /\ pc' = [pc EXCEPT ![s] = "mutated"]
                /\ UNCHANGED done
           ELSE IF r.id \notin Ids(d)
           THEN /\ pc' = [pc EXCEPT ![s] = "returned"]
                /\ done' = Append(done, s)
                /\ UNCHANGED <<df, req>>
           ELSE IF r.op = "update"
           THEN /\ df' = [df EXCEPT ![s] = UpdateTable(d, r.id, r.cand)]
                /\ req' = [req EXCEPT ![s].retBook = [r.cand EXCEPT !.id = r.id]]
                /\ pc' = [pc EXCEPT ![s] = "mutated"]
                /\ UNCHANGED done
           ELSE /\ df' = [df EXCEPT ![s] = RemoveTable(d, r.id)]
                /\ req' = [req EXCEPT ![s].retBool = TRUE]
                /\ pc' = [pc EXCEPT ![s] = "mutated"]
                /\ UNCHANGED done
    /\ UNCHANGED file

\* self.save_to_csv(), then the call returns
RaceSave(s) ==
    /\ pc[s] = "mutated"
    /\ file' = save_to_csv(df[s])
    /\ pc' = [pc EXCEPT ![s] = "returned"]
    /\ done' = Append(done, s)
    /\ UNCHANGED <<df, req>>

NextRace ==
    /\ UNCHANGED <<last, prev, issued>>
    /\ \/ \E s \in Stores, call \in RaceCalls : RaceLoad(s, call)
       \/ \E s \in Stores : RaceMutate(s)
       \/ \E s \in Stores : RaceSave(s)

SpecRace == InitRace /\ [][NextRace]_vars

(***************************************************************************)
(* The stored collection as the claims speak of it.                        *)
(***************************************************************************)
\* the ids of the rows of a file
FileIds(f) == {ParseNat(f.rows[i].id) : i \in 1..Len(f.rows)}

\* the row that stores book b
TextRow(b) ==
    [id |-> ToString(b.id), title |-> b.title, author |-> b.author,
     year |-> ToString(b.year), isbn |-> b.isbn]

SameFields(a, b) ==
    a.title = b.title /\ a.author = b.author /\ a.year = b.year /\ a.isbn = b.isbn

\* C1: starting from an absent or empty file, after any sequence of add, update
\* and remove calls run one after the other, no two stored books have the same id.
C1_UniqueIds ==
    \A i, j \in 1..Len(file.rows) :
        i # j => ParseNat(file.rows[i].id) # ParseNat(file.rows[j].id)

\* two books are stored after three adds, hence after a removal in between
C1_Witness ==
    /\ Len(file.rows) = 2
    /\ Cardinality(issued) = 3
    /\ last.op = "update" /\ last.retBook # NoBook

\* C2: an id add has assigned is never assigned by a later add, also after the
\* book that held it was removed.
C2_NeverReused ==
    [][(last'.op = "add" /\ last'.status = "ok" /\ file' # file)
          => last'.retBook.id \notin issued]_vars

\* C3: add returns a record whose id is one more than the maximum id stored
\* before (1 for an empty collection) and whose other fields are the
\* candidate's, whatever id the candidate carries; the stored collection is then
\* the previous one with exactly that record appended.
C3_AddAppends ==
    (last.op = "add" /\ last.status = "ok") =>
        /\ last.retBook.id = IF FileIds(last.fileBefore) = {} THEN 1
                             ELSE Max(FileIds(last.fileBefore)) + 1
        /\ SameFields(last.retBook, last.cand)
        /\ file.rows = Append(last.fileBefore.rows, TextRow(last.retBook))

\* C4: after add returned id i, get(i) returns a record equal to the one added.
C4_GetAfterAdd ==
    (last.op = "get" /\ prev.op = "add" /\ last.id = prev.book.id) =>
        /\ last.status = "ok"
        /\ last.retBook = prev.book

\* C5: after remove(id) succeeded, get(id) signals not found, and a second
\* remove(id) returns false, raises nothing and leaves the stored collection
\* as the first call left it.
C5_RemoveIdempotent ==
    /\ (last.op = "remove" /\ prev.op = "remove" /\ last.id = prev.book.id) =>
           /\ last.status = "ok"
           /\ ~last.retBool
           /\ file = last.fileBefore
    /\ (last.op = "get" /\ prev.op = "remove" /\ last.id = prev.book.id) =>
           /\ last.status = "ok"
           /\ last.retBook = NoBook

\* remove(id) was called twice in a row while another book stays stored
C5_Witness ==
    /\ last.op = "remove" /\ prev.op = "remove" /\ last.id = prev.book.id
    /\ Len(file.rows) >= 1

\* C6: update with an id no stored book has signals not found and leaves the
\* backing file as it was.
C6_UpdateMissing ==
    (last.op = "update" /\ last.status # "InvalidRecord"
        /\ last.id \notin FileIds(last.fileBefore)) =>
        /\ last.status = "ok"
        /\ last.retBook = NoBook
        /\ file = last.fileBefore

\* update was called with a missing id on a collection that holds books
C6_Witness ==
    /\ last.op = "update" /\ last.status = "ok"
    /\ last.id \notin FileIds(last.fileBefore)
    /\ Len(last.fileBefore.rows) >= 1

\* C7: update on an existing id sets the title, author, year and isbn of that
\* book to the replacement's and returns the record under the requested id;
\* every other stored book, the number of books and their order are unchanged.
C7_UpdateFrame ==
    (last.op = "update" /\ last.status = "ok"
        /\ last.id \in FileIds(last.fileBefore)) =>
        /\ last.retBook = [last.cand EXCEPT !.id = last.id]
        /\ Len(file.rows) = Len(last.fileBefore.rows)
        /\ \A i \in 1..Len(file.rows) :
               file.rows[i] = IF ParseNat(last.fileBefore.rows[i].id) = last.id
                              THEN TextRow(last.retBook)
                              ELSE last.fileBefore.rows[i]

\* C8: when the save fails during add, update or remove, the failure is raised
\* and neither the backing file nor the in-memory table keeps the change.
C8_FailedSaveNoEffect ==
    [][last'.status = "StorageError" =>
          /\ file' = file
          /\ \/ df'[Caller] = df[Caller]
             \/ df'[Caller] = load_from_csv(file)]_vars

\* the validation rules as the claim lists them
FailsRule(b) ==
    \/ Len(b.title) = 0 \/ Len(b.title) > 200
    \/ Len(b.author) = 0 \/ Len(b.author) > 100
    \/ b.year < 1000 \/ b.year > 2024
    \/ ~ \E m \in {"isbn", "978", "979"} : Contains(b.isbn, m)

\* C9: a candidate that fails a validation rule is rejected with an
\* invalid-record error by add and by update, and the backing file is untouched.
C9_InvalidRejected ==
    /\ (last.op \in {"add", "update"} /\ FailsRule(last.cand)) =>
           last.status = "InvalidRecord"
    /\ last.status = "InvalidRecord" =>
           /\ file = last.fileBefore
           /\ last.retBook = NoBook

\* add with isbn "no-marker-here" on an empty store left the collection empty
C9_Witness ==
    /\ last.op = "add" /\ last.cand.isbn = "no-marker-here"
    /\ last.status = "InvalidRecord"
    /\ file.kind = "table" /\ file.rows = <<>>

\* the call returned success: a record from add or update, true from remove
Succeeded(r) ==
    IF r.op = "remove" THEN r.retBool ELSE r.op \in {"add", "update"} /\ r.retBook # NoBook

\* the file after call r ran alone, from load to save, on file f
Outcome(r, f) ==
    LET d == load_from_csv(f)
    IN  IF r.op = "add" THEN save_to_csv(AddTable(d, r.cand))
        ELSE IF r.id \notin Ids(d) THEN f
        ELSE IF r.op = "update" THEN save_to_csv(UpdateTable(d, r.id, r.cand))
        ELSE save_to_csv(RemoveTable(d, r.id))

\* file f shows nothing of what call r returned as done
Lacks(r, f) ==
    IF r.op = "remove" THEN r.id \in FileIds(f)
    ELSE \A i \in 1..Len(f.rows) : f.rows[i] # TextRow(r.retBook)

\* C10: store operations are not isolated.  When both calls returned success,
\* a returning first and b second, the file is what b made of the file b had
\* loaded: if b loaded the file a loaded, a's write is overwritten as a whole
\* (nothing makes b wait for a's save); only if b loaded after a's save is the
\* file the result of a followed by b.
C10_NotIsolated ==
    \A a, b \in Stores :
        (done = <<a, b>> /\ Succeeded(req[a]) /\ Succeeded(req[b])) =>
            IF req[b].from = req[a].from
            THEN file = Outcome(req[b], req[a].from)
            ELSE file = Outcome(req[b], Outcome(req[a], req[a].from))

\* a lost update: both calls returned success, the file is the result of neither
\* order of the two calls, and it lacks what the first to return had done
C10_Witness ==
    \E a, b \in Stores :
        /\ done = <<a, b>> /\ Succeeded(req[a]) /\ Succeeded(req[b])
        /\ file # Outcome(req[b], Outcome(req[a], req[a].from))
        /\ file # Outcome(req[a], Outcome(req[b], req[a].from))
        /\ Lacks(req[a], file)

\* the file states C11 is about
Unreadable(f) == f.kind \in {"absent", "empty", "malformed"}

\* C11: a missing, empty or malformed backing file is an empty collection on
\* load, never an error: on such a file list_all returns the empty sequence,
\* get signals not found, remove returns false, statistics returns the
\* zero-records sentinel and add assigns id 1, and none of them raises.
C11_UnreadableIsEmpty ==
    (last.op \in {"get_all", "get", "remove", "statistics", "add"}
        /\ Unreadable(last.fileBefore)) =>
        /\ last.status = "ok"
        /\ last.op = "get_all" => last.retList = <<>>
        /\ last.op = "get" => last.retBook = NoBook
        /\ last.op = "remove" => ~last.retBool
        /\ last.op = "statistics" => last.retStats = NoBooksStats
        /\ last.op = "add" => last.retBook.id = 1

\* the sum of f over the keys in S
RECURSIVE SumOver(_, _)
SumOver(f, S) ==
    IF S = {} THEN 0
    ELSE LET k == CHOOSE x \in S : TRUE IN f[k] + SumOver(f, S \ {k})

\* C12: statistics leaves storage as it was and returns the zero-records
\* sentinel for an empty collection; otherwise the total is the number of
\* stored books, authors_count the number of distinct stored authors, oldest
\* and newest the least and greatest stored year, average the mean year
\* rounded to one decimal, and the per-author counts sum to the total.
C12_StatisticsOfStore ==
    last.op = "statistics" =>
        LET rows == last.fileBefore.rows
            n == Len(rows)
            years == [i \in 1..n |-> ParseNat(rows[i].year)]
            st == last.retStats
        IN  /\ last.status = "ok"
            /\ file = last.fileBefore
            /\ IF n = 0 THEN st = NoBooksStats
               ELSE /\ st.kind = "stats"
                    /\ st.total_books = n
                    /\ st.authors_count = Cardinality({rows[i].author : i \in 1..n})
                    /\ st.oldest = Min({years[i] : i \in 1..n})
                    /\ st.newest = Max({years[i] : i \in 1..n})
                    /\ 2 * (10 * SumSeq(years) - n * st.average10) <= n
                    /\ 2 * (n * st.average10 - 10 * SumSeq(years)) <= n
                    /\ SumOver(st.books_per_author, DOMAIN st.books_per_author) = n

====
